---- MODULE Spec2Model ----
(***************************************************************************)
(* A model of the weekly news pipeline: the news table (src/core/db.py),   *)
(* the CLI dispatch (src/cli.py), the collector, analyzer and blogger      *)
(* stages and the ISO-week helpers (src/core/time_utils.py).               *)
(***************************************************************************)
EXTENDS Integers, Sequences, FiniteSets, TLC

VARIABLES
    clock,      \* the wall clock: now_utc() returns Instant(clock)
    table,      \* the rows of the news table (db.py SCHEMA_SQL)
    pc,         \* cli.main: "idle" between invocations, else the stage that is running
    runs,       \* the number of CLI invocations so far
    args,       \* cli.parse_args: the arguments of the current invocation
    run_list,   \* cli.main: the parsed run list
    outcome,    \* how the last invocation ended: "ok", "error", or NoValue
    trace,      \* the stage calls main made in this invocation, in order
    colSources, \* collector.run: configured sources still to fetch
    colItems,   \* collector.run: items of the current source still to insert
    inserted,   \* collector.run: the last insert_news call of this run, its item and result
    anRows,     \* analyzer.run: rows of the fetched range still to process
    anRange,    \* analyzer.run: the (start, end) ISO strings of the range that was fetched
    spc,        \* the running stage's position: "begin" (called), "loop" (in its for loop), "none"
    calls,      \* the requests (listing, page, language model) made by the stage run that started last
    lines,      \* analyzer.run: the entries rendered so far for the weekly file
    anWeek,     \* analyzer.run: the (year, week) pair worked out when the run began
    files,      \* the files on disk: path |-> who wrote it and what
    analyzer_output, \* cli.main: the path analyzer.run returned, or NoPath
    summary_path,    \* blogger.run: the path of the summary file it read, or NoPath
    cpc,        \* per concurrent collector process: "idle", "checked" or "raised"
    citem,      \* per concurrent collector process: the item insert_news is handling
    cins,       \* per concurrent collector process: the insert_news calls it has made
    qStart,     \* a range query's start_iso argument
    qEnd,       \* a range query's end_iso argument
    qRows,      \* the rows the range query returned
    pcQ,        \* "input" before the range query, "done" after it
    dtIn,       \* time_utils: the datetime handed to iso_week_bounds / iso_year_week
    wb,         \* time_utils: the (start, end) pair iso_week_bounds returned, or NoValue
    yw,         \* time_utils: the (year, week) pair iso_year_week returned, or NoValue
    pcT,        \* time_utils: "input" before the calls, "done" after them
    fSource,    \* collector: the configured source handed to a strategy, with what it serves
    fResult,    \* collector: what the strategy returned, or how it raised
    fLeft,      \* collector.run: the returned items still to store
    pcF,        \* "input" before the source is fetched, then "storing"/"done"/"listed"
    iOutput,    \* source_inspector.run: the stub the model emitted
    iReturned,  \* source_inspector.run: the stub run returned
    pcI         \* source_inspector.run: "begin", "validate", then "returned"/"raised"

timeVars == <<dtIn, wb, yw, pcT>>
queryVars == <<qStart, qEnd, qRows, pcQ>>
fetchVars == <<fSource, fResult, fLeft, pcF>>
inspectVars == <<iOutput, iReturned, pcI>>
pureVars == <<timeVars, queryVars, fetchVars, inspectVars>>
cliVars == <<pc, runs, args, run_list, outcome, trace>>
stageVars == <<spc, colSources, colItems, inserted, anRows, anRange>>
ioVars == <<calls, lines, anWeek, files, analyzer_output, summary_path>>
concVars == <<cpc, citem, cins>>
vars == <<clock, table, cliVars, stageVars, ioVars, concVars, pureVars>>

NoValue == "<none>"

(***************************************************************************)
(* Python's datetime: a record of the calendar and clock fields.  All the  *)
(* datetimes of the program are timezone-aware UTC (now_utc).              *)
(***************************************************************************)
DateTime(y, mo, d, h, mi, s, us) ==
    [year |-> y, month |-> mo, day |-> d, hour |-> h, minute |-> mi,
     second |-> s, microsecond |-> us]

IsLeap(y) == (y % 4 = 0) /\ ((y % 100 # 0) \/ (y % 400 = 0))

DaysInMonth(y, m) ==
    IF m = 2 THEN (IF IsLeap(y) THEN 29 ELSE 28)
    ELSE IF m \in {4, 6, 9, 11} THEN 30 ELSE 31

\* Days before January 1st of year y (proleptic Gregorian ordinal, day 1 = 0001-01-01).
DaysBeforeYear(y) ==
    (y - 1) * 365 + ((y - 1) \div 4) - ((y - 1) \div 100) + ((y - 1) \div 400)

RECURSIVE DaysBeforeMonth(_, _)
DaysBeforeMonth(y, m) ==
    IF m = 1 THEN 0 ELSE DaysBeforeMonth(y, m - 1) + DaysInMonth(y, m - 1)

\* date.toordinal()
Ymd2Ord(y, m, d) == DaysBeforeYear(y) + DaysBeforeMonth(y, m) + d

ToOrdinal(dt) == Ymd2Ord(dt.year, dt.month, dt.day)

\* date.fromordinal(): the year, month and day of ordinal n.
OrdYear(n) ==
    LET guess == ((n * 400) \div 146097) + 1
    IN  CHOOSE y \in (guess - 1)..(guess + 1) :
            DaysBeforeYear(y) < n /\ n <= DaysBeforeYear(y + 1)

OrdMonth(n) ==
    LET y == OrdYear(n)
        r == n - DaysBeforeYear(y)
    IN  CHOOSE m \in 1..12 :
            DaysBeforeMonth(y, m) < r /\ r <= DaysBeforeMonth(y, m) + DaysInMonth(y, m)

OrdDay(n) == n - DaysBeforeYear(OrdYear(n)) - DaysBeforeMonth(OrdYear(n), OrdMonth(n))

\* datetime - timedelta(days=k) / datetime + timedelta(days=k): the clock fields stay.
AddDays(dt, k) ==
    LET n == ToOrdinal(dt) + k
    IN  [dt EXCEPT !.year = OrdYear(n), !.month = OrdMonth(n), !.day = OrdDay(n)]

\* date.isoweekday(): Monday is 1, Sunday is 7.
IsoWeekday(dt) == LET r == ToOrdinal(dt) % 7 IN IF r = 0 THEN 7 ELSE r

\* The ordinal of the Monday that starts ISO week 1 of year y.
IsoWeek1Monday(y) ==
    LET firstday     == Ymd2Ord(y, 1, 1)
        firstweekday == (firstday + 6) % 7
        week1monday  == firstday - firstweekday
    IN  IF firstweekday > 3 THEN week1monday + 7 ELSE week1monday

\* date.isocalendar(): the ISO year and week number.
IsoCalendar(dt) ==
    LET today == ToOrdinal(dt)
        y     == dt.year
        w     == (today - IsoWeek1Monday(y)) \div 7
    IN  IF today < IsoWeek1Monday(y)
        THEN [year |-> y - 1, week |-> ((today - IsoWeek1Monday(y - 1)) \div 7) + 1]
        ELSE IF w >= 52 /\ today >= IsoWeek1Monday(y + 1)
             THEN [year |-> y + 1, week |-> 1]
             ELSE [year |-> y, week |-> w + 1]

\* Seconds since midnight, and the order of two datetimes (same timezone).
SecondOfDay(dt) == (dt.hour * 60 + dt.minute) * 60 + dt.second

DtLT(a, b) ==
    \/ ToOrdinal(a) < ToOrdinal(b)
    \/ ToOrdinal(a) = ToOrdinal(b) /\ SecondOfDay(a) < SecondOfDay(b)
    \/ ToOrdinal(a) = ToOrdinal(b) /\ SecondOfDay(a) = SecondOfDay(b)
          /\ a.microsecond < b.microsecond

DtLE(a, b) == a = b \/ DtLT(a, b)

(***************************************************************************)
(* src/core/time_utils.py                                                  *)
(***************************************************************************)
iso_year_week(dt) == IsoCalendar(dt)

\* A slip a maintainer could make: weekday() (Monday = 0) taken for isoweekday().
iso_week_bounds_weekday0(dt) ==
    LET weekday == IsoWeekday(dt) - 1
        start   == AddDays(DateTime(dt.year, dt.month, dt.day, 0, 0, 0, 0), -(weekday - 1))
    IN  [start |-> start, end |-> AddDays(start, 7)]

iso_week_bounds(dt) ==
    LET weekday == IsoWeekday(dt)
        start   == AddDays(DateTime(dt.year, dt.month, dt.day, 0, 0, 0, 0), -(weekday - 1))
    IN  [start |-> start, end |-> AddDays(start, 7)]

(***************************************************************************)
(* to_iso: datetime.isoformat() of a UTC datetime,                         *)
(* "YYYY-MM-DDTHH:MM:SS[.ffffff]+00:00".  The string is held as the        *)
(* sequence of its zero-padded decimal fields, each fixed-width and so     *)
(* ordered as its number, followed by the character code of what follows   *)
(* the seconds: "+" (43) when the microsecond is 0 and isoformat leaves    *)
(* the fraction out, else "." (46), the six-digit fraction and "+".  The   *)
(* separators and the "00:00" offset, the same in every string, are left   *)
(* out.                                                                    *)
(***************************************************************************)
to_iso(dt) ==
    <<dt.year, dt.month, dt.day, dt.hour, dt.minute, dt.second>>
        \o (IF dt.microsecond = 0 THEN <<43>> ELSE <<46, dt.microsecond, 43>>)

\* SQLite compares TEXT values bytewise (BINARY collation): lexicographic order.
StrLT(a, b) ==
    \E i \in 1..(Len(a) + 1) :
        /\ i <= Len(b)
        /\ \A j \in 1..(i - 1) : a[j] = b[j]
        /\ (i = Len(a) + 1 \/ a[i] < b[i])

StrLE(a, b) == a = b \/ StrLT(a, b)

(***************************************************************************)
(* The wall clock.  Instant(k) walks the weeks from Monday 2026-12-28      *)
(* (ISO week 2026-53, which runs into 2027), two instants a week: its      *)
(* first, Monday 00:00:00, and its last, Sunday 23:59:59.999999.           *)
(***************************************************************************)
MaxTick == 2

Instant(k) ==
    LET monday == AddDays(DateTime(2026, 12, 28, 0, 0, 0, 0), 7 * (k \div 2))
    IN  IF k % 2 = 0
        THEN monday
        ELSE [AddDays(monday, 6) EXCEPT !.hour = 23, !.minute = 59,
                                        !.second = 59, !.microsecond = 999999]

\* The instants of the clock, worked out once.
Instants == [k \in 0..MaxTick |-> Instant(k)]

now_utc == Instants[clock]

(***************************************************************************)
(* src/core/db.py                                                          *)
(***************************************************************************)
NULL == "<NULL>"

URLs == {"u1", "u2"}
Titles == {"t1", "t2"}
PublishedDates == {NULL, "p1"}
Contents == {"c1"}
\* What LLMClient._run returns: (resp.output_text or "").strip()
LlmTexts == {"", "s1"}

NewsItem(url, title, published_date, collected_date, content, summary) ==
    [url |-> url, title |-> title, published_date |-> published_date,
     collected_date |-> collected_date, content |-> content, summary |-> summary]

\* A mistake the check would make without the title clause of the WHERE.
exists_by_url_only(tbl, url, title) == \E r \in tbl : r.url = url

exists_by_url_or_title(tbl, url, title) ==
    \E r \in tbl : r.url = url \/ r.title = title

\* The INSERT with the PRIMARY KEY constraint on url left out of the schema.
SqlInsertNoKey(tbl, item) == [error |-> NoValue, table |-> tbl \cup {item}]

\* The INSERT statement: url is the PRIMARY KEY, a second row with the same url
\* raises sqlite3.IntegrityError and leaves the table as it was.
SqlInsert(tbl, item) ==
    IF \E r \in tbl : r.url = item.url
    THEN [error |-> "IntegrityError", table |-> tbl]
    ELSE [error |-> NoValue, table |-> tbl \cup {item}]

\* INSERT OR REPLACE keyed on url instead of the check.
insert_news_upsert(tbl, item) ==
    [ret |-> "True", table |-> {r \in tbl : r.url # item.url} \cup {item}]

insert_news(tbl, item) ==
    IF exists_by_url_or_title(tbl, item.url, item.title)
    THEN [ret |-> "False", table |-> tbl]
    ELSE LET ins == SqlInsert(tbl, item)
         IN  IF ins.error # NoValue
             THEN [ret |-> ins.error, table |-> ins.table]
             ELSE [ret |-> "True", table |-> ins.table]

\* The UPDATE naming the wrong column.
update_summary_content(tbl, url, summary) ==
    { IF r.url = url THEN [r EXCEPT !.content = summary] ELSE r : r \in tbl }

update_summary(tbl, url, summary) ==
    { IF r.url = url THEN [r EXCEPT !.summary = summary] ELSE r : r \in tbl }

\* The range closed at its end.
InRangeClosed(r, start_iso, end_iso) ==
    StrLE(start_iso, r.collected_date) /\ StrLE(r.collected_date, end_iso)

\* The WHERE clause of the range query.
InRange(r, start_iso, end_iso) ==
    StrLE(start_iso, r.collected_date) /\ StrLT(r.collected_date, end_iso)

\* The query without its WHERE clause.
SelectedWholeTable(tbl, start_iso, end_iso) == tbl

Selected(tbl, start_iso, end_iso) == { r \in tbl : InRange(r, start_iso, end_iso) }

\* The orders ORDER BY collected_date ASC may return rows in (rows with equal
\* collected_date come in any order).
OrderedBy(rows) ==
    { q \in [1..Cardinality(rows) -> rows] :
        /\ \A i, j \in 1..Cardinality(rows) : i # j => q[i] # q[j]
        /\ \A i \in 1..(Cardinality(rows) - 1) :
               StrLE(q[i].collected_date, q[i + 1].collected_date) }

fetch_by_collected_range(tbl, start_iso, end_iso) ==
    OrderedBy(Selected(tbl, start_iso, end_iso))

(***************************************************************************)
(* src/cli.py.  The --run string is held as the sequence of its pieces: a  *)
(* word, a blank " " or a comma ",".                                       *)
(***************************************************************************)
Stages == <<"collector", "analyzer", "blogger">>

RunStrings ==
    { <<"pipeline">>,
      <<"blogger", ",", "analyzer", ",", "collector">>,
      <<"collector">>,
      <<" ", "analyzer", " ", ",", ",", " ", ",", "other">>,
      <<"blogger">>,
      <<"collector", ",", " ", "analyzer">>,
      <<"blogger", ",", "collector">>,
      <<"analyzer", ",", "blogger", ",", "analyzer">>,
      <<>>,
      <<"pipeline", ",", "other">> }

\* str.split(","): the pieces between the commas.
RECURSIVE SplitComma(_)
SplitComma(str) ==
    IF \A i \in 1..Len(str) : str[i] # ","
    THEN <<str>>
    ELSE LET i == CHOOSE k \in 1..Len(str) :
                      str[k] = "," /\ \A j \in 1..(k - 1) : str[j] # ","
         IN  <<SubSeq(str, 1, i - 1)>> \o SplitComma(SubSeq(str, i + 1, Len(str)))

\* str.strip(): leading and trailing blanks removed.
RECURSIVE Strip(_)
Strip(str) ==
    IF str = <<>> THEN str
    ELSE IF Head(str) = " " THEN Strip(Tail(str))
    ELSE IF str[Len(str)] = " " THEN Strip(SubSeq(str, 1, Len(str) - 1))
    ELSE str

RECURSIVE StripAndDropBlank(_)
StripAndDropBlank(parts) ==
    IF parts = <<>> THEN <<>>
    ELSE (IF Strip(Head(parts)) # <<>> THEN <<Strip(Head(parts))>> ELSE <<>>)
             \o StripAndDropBlank(Tail(parts))

\* The entries taken as they stand: blanks kept, nothing stripped.
ParseRunNoStrip(run) ==
    IF run = <<"pipeline">>
    THEN <<<<"collector">>, <<"analyzer">>, <<"blogger">>>>
    ELSE SplitComma(run)

\* main, lines 58-61: the run list of a --run string.
ParseRun(run) ==
    IF run = <<"pipeline">>
    THEN <<<<"collector">>, <<"analyzer">>, <<"blogger">>>>
    ELSE StripAndDropBlank(SplitComma(run))

\* name in run_list
InList(name, items) == \E i \in 1..Len(items) : items[i] = <<name>>

\* The check made on the blogger alone.
validate_run_list_blogger_only(items) ==
    InList("blogger", items) /\ ~InList("analyzer", items)

\* validate_run_list: TRUE when it raises ValueError.
validate_run_list(items) ==
    InList("collector", items) /\ InList("blogger", items) /\ ~InList("analyzer", items)

\* Dispatch that follows the order of the names in --run: the stage named by the
\* first entry of the run list from position i on.
StageInListOrder(i, items) ==
    IF \E j \in i..Len(items) : \E k \in 1..3 : items[j] = <<Stages[k]>>
    THEN LET j == CHOOSE j \in i..Len(items) :
                      /\ \E k \in 1..3 : items[j] = <<Stages[k]>>
                      /\ \A h \in i..(j - 1) : \A k \in 1..3 : items[h] # <<Stages[k]>>
         IN  items[j][1]
    ELSE "idle"

\* main, lines 67-78: the first of the ifs from the i-th on whose stage is in the
\* run list, or "idle" when main falls off its end.
StageFrom(i, items) ==
    IF \E j \in i..3 : InList(Stages[j], items)
    THEN Stages[CHOOSE j \in i..3 :
                    InList(Stages[j], items) /\ \A h \in i..(j - 1) : ~InList(Stages[h], items)]
    ELSE "idle"

(***************************************************************************)
(* The pipeline: CLI invocations one after another on one store.           *)
(***************************************************************************)
MaxRuns == 2
MaxSources == 2
MaxItems == 1

SourceTypes == {"rss", "html", "js", "api", "other"}

\* No (year, week) pair: the analyzer is not running.
NoWeek == [year |-> 0, week |-> 0]

\* Paths of files: the kind of file and the ISO year and week in its name.
NoPath == <<"none", 0, 0>>

\* A summary file that was there before the pipeline ran, for --summary-file.
GivenPath == <<"given", 0, 0>>

\* analyzer.run line 71, with output_dir the directory blogger.run falls back on.
NewsPath(year_week) == <<"news", year_week.year, year_week.week>>

\* The post written over the summary of the week.
BlogPathOverNews(year_week) == NewsPath(year_week)

\* blogger.run line 58.
BlogPath(year_week) == <<"blog", year_week.year, year_week.week>>

\* The values of --summary-file.
SummaryFiles == {NoPath, GivenPath}

\* open(path, "w") and write: the file is created or replaced.  Of what is
\* written the number of entries is kept.
WriteFile(fs, path, stage, content) ==
    [p \in DOMAIN fs \cup {path} |->
        IF p = path THEN [by |-> stage, content |-> content] ELSE fs[p]]

\* cli.main line 77 and blogger.run lines 44-48: the summary file the blogger opens.
ResolveSummaryPath(summary_file, output, now) ==
    IF summary_file # NoPath THEN summary_file
    ELSE IF output # NoPath THEN output
    ELSE NewsPath(iso_year_week(now))

\* The publication date a page shows: the page at "u1" shows none.
PublishedOf(url) == IF url = "u1" THEN NULL ELSE "p1"

\* What a source yields for one item: the fields the four strategies fill in.
Items ==
    { it \in [url : URLs, title : Titles, published_date : PublishedDates, content : Contents] :
        it.published_date = PublishedOf(it.url) }

NoInsert == [ret |-> "none"]

InitTimeIdle ==
    /\ dtIn = NoValue
    /\ wb = NoValue
    /\ yw = NoValue
    /\ pcT = "done"

InitQueryIdle ==
    /\ qStart = <<>>
    /\ qEnd = <<>>
    /\ qRows = <<>>
    /\ pcQ = "done"

InitConcIdle ==
    /\ cpc = [p \in {} |-> "idle"]
    /\ citem = [p \in {} |-> NoValue]
    /\ cins = [p \in {} |-> 0]

InitStore ==
    /\ clock = 0
    /\ table = {}

InitCli ==
    /\ pc = "idle"
    /\ runs = 0
    /\ args = [mode |-> "none"]
    /\ run_list = <<>>
    /\ outcome = NoValue
    /\ trace = <<>>
    /\ spc = "none"
    /\ colSources = 0
    /\ colItems = 0
    /\ inserted = NoInsert
    /\ anRows = <<>>
    /\ anRange = <<>>
    /\ calls = <<>>
    /\ lines = <<>>
    /\ anWeek = NoWeek
    /\ files = [p \in {GivenPath} |-> [by |-> "user", content |-> 0]]
    /\ analyzer_output = NoPath
    /\ summary_path = NoPath

InitFetchIdle ==
    /\ fSource = [type |-> "none"]
    /\ fResult = [status |-> "none"]
    /\ fLeft = <<>>
    /\ pcF = "done"

InitInspectIdle ==
    /\ iOutput = [kind |-> "none"]
    /\ iReturned = [kind |-> "none"]
    /\ pcI = "done"

Init == InitStore /\ InitCli /\ InitConcIdle /\ InitTimeIdle /\ InitQueryIdle /\ InitFetchIdle /\ InitInspectIdle

\* Time passes.
Tick ==
    /\ clock < MaxTick
    /\ clock' = clock + 1
    /\ UNCHANGED <<table, cliVars, stageVars, ioVars, concVars, pureVars>>

\* main calls the stage of the first if, from the i-th on, whose name is in the
\* run list, or returns.
Dispatch(i, tr) ==
    LET st == StageFrom(i, run_list')
    IN  /\ pc' = st
        /\ spc' = IF st = "idle" THEN "none" ELSE "begin"
        /\ trace' = IF st = "idle" THEN tr ELSE Append(tr, <<st, "start">>)
        /\ outcome' = IF st = "idle" THEN "ok" ELSE NoValue

\* The i-th stage returns to main.
Return(i) ==
    /\ UNCHANGED <<runs, args, run_list>>
    /\ calls' = IF StageFrom(i + 1, run_list) = "idle" THEN calls ELSE <<>>
    /\ Dispatch(i + 1, Append(trace, <<Stages[i], "end">>))

\* The i-th stage raises: the exception leaves main and ends the process.
Raise(i) ==
    /\ pc' = "idle"
    /\ spc' = "none"
    /\ trace' = Append(trace, <<Stages[i], "raise">>)
    /\ outcome' = "error"
    /\ UNCHANGED <<runs, args, run_list>>

\* main, lines 42-67: a new invocation parses and validates its run list.
CliStart ==
    /\ pc = "idle"
    /\ runs < MaxRuns
    /\ \E run \in RunStrings, skip \in BOOLEAN, sf \in SummaryFiles :
          /\ sf # NoPath => InList("blogger", ParseRun(run))
          /\ skip => InList("analyzer", ParseRun(run))
          /\ args' = [mode |-> "run", run |-> run, skip_summarize |-> skip,
                      summary_file |-> sf]
          /\ run_list' = ParseRun(run)
          /\ runs' = runs + 1
          /\ IF validate_run_list(run_list')
             THEN /\ pc' = "idle"
                  /\ spc' = "none"
                  /\ trace' = <<>>
                  /\ outcome' = "error"
             ELSE Dispatch(1, <<>>)
    /\ calls' = <<>>
    /\ analyzer_output' = NoPath
    /\ summary_path' = NoPath
    /\ UNCHANGED <<clock, table, colSources, colItems, inserted, anRows, anRange, lines,
                   anWeek, files, concVars, pureVars>>

\* main, lines 48-56: --inspect-source and --list-urls return before the run list
\* is looked at.
CliInspectOrList ==
    /\ pc = "idle"
    /\ runs < MaxRuns
    /\ \E mode \in {"inspect_source", "list_urls"}, result \in {"ok", "error"} :
          /\ args' = [mode |-> mode]
          /\ outcome' = result
    /\ run_list' = <<>>
    /\ runs' = runs + 1
    /\ trace' = <<>>
    /\ calls' = <<>>
    /\ analyzer_output' = NoPath
    /\ summary_path' = NoPath
    /\ UNCHANGED <<clock, table, pc, stageVars, lines, anWeek, files, concVars, pureVars>>

(***************************************************************************)
(* src/collector/collector.py, run                                         *)
(***************************************************************************)
\* lines 49-51: the configuration is loaded and the store opened.
CollectorLoadConfig ==
    /\ pc = "collector" /\ spc = "begin"
    /\ \E n \in 0..MaxSources : colSources' = n
    /\ colItems' = 0
    /\ spc' = "loop"
    /\ UNCHANGED <<clock, table, cliVars, inserted, anRows, anRange, ioVars, concVars, pureVars>>

\* load_config or connect raises (a missing key, an unreadable file).
CollectorLoadFails ==
    /\ pc = "collector" /\ spc = "begin"
    /\ Raise(1)
    /\ UNCHANGED <<clock, table, colSources, colItems, inserted, anRows, anRange,
                   ioVars, concVars, pureVars>>

\* The requests of a strategy: the listing of the k-th source from the end of the
\* list, and the page of its j-th link.
ListingCall(k) == <<"listing", k>>

ArticleCall(k, j) == <<"article", k, j>>

\* The requests a strategy makes when it returns n items: the listing, then one
\* page for each item of fetch_rss, one page for each link tried by fetch_html and
\* fetch_js (a page that cannot be read gives no item), none for fetch_api.
StrategyCalls(type, k, n) ==
    { <<ListingCall(k)>> \o [j \in 1..m |-> ArticleCall(k, j)] :
        m \in CASE type = "rss" -> {n}
                [] type = "api" -> {0}
                [] OTHER -> n..MaxItems }

\* lines 54-66: the next source is dispatched on its type and fetched.
CollectorFetchSource ==
    /\ pc = "collector" /\ spc = "loop"
    /\ colSources > 0 /\ colItems = 0
    /\ \E type \in SourceTypes :
          IF type \in {"rss", "html", "js", "api"}
          THEN /\ \E n \in 0..MaxItems :
                     /\ colItems' = n
                     /\ \E made \in StrategyCalls(type, colSources, n) :
                           calls' = calls \o made
               /\ colSources' = colSources - 1
               /\ UNCHANGED <<cliVars, spc, inserted>>
          ELSE /\ Raise(1)
               /\ colSources' = 0
               /\ colItems' = 0
               /\ inserted' = NoInsert
               /\ UNCHANGED calls
    /\ UNCHANGED <<clock, table, anRows, anRange, lines, anWeek, files, analyzer_output,
                   summary_path, concVars, pureVars>>

\* The failed listing asked for again.
CollectorFetchRetries ==
    /\ pc = "collector" /\ spc = "loop"
    /\ colSources > 0 /\ colItems = 0
    /\ calls' = Append(calls, ListingCall(colSources))
    /\ UNCHANGED <<clock, table, cliVars, stageVars, lines, anWeek, files, analyzer_output,
                   summary_path, concVars, pureVars>>

\* A strategy raises: a howto field is missing (nothing is requested), or the
\* listing cannot be fetched.
CollectorFetchFails ==
    /\ pc = "collector" /\ spc = "loop"
    /\ colSources > 0 /\ colItems = 0
    /\ Raise(1)
    /\ \E made \in BOOLEAN :
          calls' = IF made THEN Append(calls, ListingCall(colSources)) ELSE calls
    /\ colSources' = 0
    /\ colItems' = 0
    /\ inserted' = NoInsert
    /\ UNCHANGED <<clock, table, anRows, anRange, lines, anWeek, files, analyzer_output,
                   summary_path, concVars, pureVars>>

\* lines 68-81: one item is stored with the current time, or skipped as a
\* duplicate; an exception of the INSERT leaves run.
CollectorInsert ==
    /\ pc = "collector" /\ spc = "loop"
    /\ colItems > 0
    /\ \E item \in Items :
          LET news == NewsItem(item.url, item.title, item.published_date,
                               to_iso(now_utc), item.content, NULL)
              res  == insert_news(table, news)
          IN  /\ table' = res.table
              /\ inserted' = [news |-> news, ret |-> res.ret]
              /\ IF res.ret \in {"True", "False"}
                 THEN /\ colItems' = colItems - 1
                      /\ UNCHANGED <<cliVars, spc, colSources>>
                 ELSE /\ Raise(1)
                      /\ colSources' = 0
                      /\ colItems' = 0
    /\ UNCHANGED <<clock, anRows, anRange, ioVars, concVars, pureVars>>

\* The loop over the sources ends and run returns.
CollectorReturn ==
    /\ pc = "collector" /\ spc = "loop"
    /\ colSources = 0 /\ colItems = 0
    /\ Return(1)
    /\ inserted' = NoInsert
    /\ UNCHANGED <<clock, table, colSources, colItems, anRows, anRange, lines,
                   anWeek, files, analyzer_output, summary_path, concVars, pureVars>>

(***************************************************************************)
(* src/analyzer/analyzer.py, run                                           *)
(***************************************************************************)
\* A test for None alone.
FalsyNoneOnly(text) == text = NULL

\* Python's "not summary": None and the empty string are both false.
Falsy(text) == text = NULL \/ text = ""

\* The flag left out of the test.
NeedsSummaryWhateverFlag(summary, skip_summarize) == Falsy(summary)

\* analyzer.run line 54: "if not summary and not skip_summarize".
NeedsSummary(summary, skip_summarize) == Falsy(summary) /\ ~skip_summarize

\* One request to the language model, named by what it is about.
LlmCall(subject) == <<"llm", subject>>

\* lines 59-69: the entry of a row in the weekly file, "summary or ''" at its end.
Entry(row, summary) ==
    [url |-> row.url, summary |-> IF Falsy(summary) THEN "" ELSE summary]

\* lines 38-48: the current ISO week's rows are fetched.
AnalyzerFetch ==
    /\ pc = "analyzer" /\ spc = "begin"
    /\ anWeek' = iso_year_week(now_utc)
    /\ LET bounds == iso_week_bounds(now_utc)
       IN  /\ anRange' = <<to_iso(bounds.start), to_iso(bounds.end)>>
           /\ \E rows \in fetch_by_collected_range(table, to_iso(bounds.start),
                                                   to_iso(bounds.end)) :
                 anRows' = rows
    /\ spc' = "loop"
    /\ lines' = <<>>
    /\ UNCHANGED <<clock, table, cliVars, colSources, colItems, inserted, calls,
                   files, analyzer_output, summary_path, concVars, pureVars>>

\* load_config, connect or (without --skip-summarize) LLMClient raises.
AnalyzerBeginFails ==
    /\ pc = "analyzer" /\ spc = "begin"
    /\ Raise(2)
    /\ UNCHANGED <<clock, table, colSources, colItems, inserted, anRows, anRange,
                   ioVars, concVars, pureVars>>

\* lines 52-69: one row of the loop; a row without a summary is summarized and
\* the text the model returned is stored.
AnalyzerRow ==
    /\ pc = "analyzer" /\ spc = "loop"
    /\ anRows # <<>>
    /\ LET row == Head(anRows)
       IN  IF NeedsSummary(row.summary, args.skip_summarize)
           THEN \E text \in LlmTexts :
                   /\ calls' = Append(calls, LlmCall(row.url))
                   /\ table' = update_summary(table, row.url, text)
                   /\ lines' = Append(lines, Entry(row, text))
           ELSE /\ lines' = Append(lines, Entry(row, row.summary))
                /\ UNCHANGED <<table, calls>>
    /\ anRows' = Tail(anRows)
    /\ UNCHANGED <<clock, cliVars, spc, colSources, colItems, inserted, anRange,
                   anWeek, files, analyzer_output, summary_path, concVars, pureVars>>

\* The failure undoing the summaries the run has stored so far.
AnalyzerLlmFailsRollback ==
    /\ pc = "analyzer" /\ spc = "loop"
    /\ anRows # <<>>
    /\ NeedsSummary(Head(anRows).summary, args.skip_summarize)
    /\ Raise(2)
    /\ calls' = Append(calls, LlmCall(Head(anRows).url))
    /\ anRows' = <<>>
    /\ anRange' = <<>>
    /\ lines' = <<>>
    /\ anWeek' = NoWeek
    /\ table' = { IF \E k \in 1..Len(calls) : calls[k] = LlmCall(r.url)
                   THEN [r EXCEPT !.summary = NULL] ELSE r : r \in table }
    /\ UNCHANGED <<clock, colSources, colItems, inserted, files, analyzer_output,
                   summary_path, concVars, pureVars>>

\* The request to the language model raises.
AnalyzerLlmFails ==
    /\ pc = "analyzer" /\ spc = "loop"
    /\ anRows # <<>>
    /\ NeedsSummary(Head(anRows).summary, args.skip_summarize)
    /\ Raise(2)
    /\ calls' = Append(calls, LlmCall(Head(anRows).url))
    /\ anRows' = <<>>
    /\ anRange' = <<>>
    /\ lines' = <<>>
    /\ anWeek' = NoWeek
    /\ UNCHANGED <<clock, table, colSources, colItems, inserted, files, analyzer_output,
                   summary_path, concVars, pureVars>>

\* lines 71-91: the weekly file is written and its path returned.
AnalyzerReturn ==
    /\ pc = "analyzer" /\ spc = "loop"
    /\ anRows = <<>>
    /\ Return(2)
    /\ files' = WriteFile(files, NewsPath(anWeek), "analyzer", Len(lines))
    /\ analyzer_output' = NewsPath(anWeek)
    /\ anRange' = <<>>
    /\ lines' = <<>>
    /\ anWeek' = NoWeek
    /\ UNCHANGED <<clock, table, colSources, colItems, inserted, anRows, summary_path,
                   concVars, pureVars>>

\* Writing the weekly file raises (the output directory is missing).
AnalyzerWriteFails ==
    /\ pc = "analyzer" /\ spc = "loop"
    /\ anRows = <<>>
    /\ Raise(2)
    /\ anRange' = <<>>
    /\ lines' = <<>>
    /\ anWeek' = NoWeek
    /\ UNCHANGED <<clock, table, colSources, colItems, inserted, anRows, calls,
                   files, analyzer_output, summary_path, concVars, pureVars>>

(***************************************************************************)
(* src/blogger/blogger.py, run                                             *)
(***************************************************************************)
\* lines 42-55: the summary file is read and the post asked of the language model.
BloggerGenerate ==
    /\ pc = "blogger" /\ spc = "begin"
    /\ LET path == ResolveSummaryPath(args.summary_file, analyzer_output, now_utc)
       IN  /\ path \in DOMAIN files
           /\ summary_path' = path
    /\ calls' = Append(calls, LlmCall("blog"))
    /\ spc' = "write"
    /\ UNCHANGED <<clock, table, cliVars, colSources, colItems, inserted, anRows, anRange,
                   lines, anWeek, files, analyzer_output, concVars, pureVars>>

\* The summary file is missing (no request is made), or the request raises.
BloggerFails ==
    /\ pc = "blogger" /\ spc = "begin"
    /\ Raise(3)
    /\ \E made \in BOOLEAN :
          /\ made => ResolveSummaryPath(args.summary_file, analyzer_output, now_utc)
                          \in DOMAIN files
          /\ calls' = IF made THEN Append(calls, LlmCall("blog")) ELSE calls
    /\ UNCHANGED <<clock, table, colSources, colItems, inserted, anRows, anRange,
                   lines, anWeek, files, analyzer_output, summary_path, concVars, pureVars>>

\* lines 57-107: the post is written and run returns.
BloggerRun ==
    /\ pc = "blogger" /\ spc = "write"
    /\ Return(3)
    /\ files' = WriteFile(files, BlogPath(iso_year_week(now_utc)), "blogger", 1)
    /\ UNCHANGED <<clock, table, colSources, colItems, inserted, anRows, anRange,
                   lines, anWeek, analyzer_output, summary_path, concVars, pureVars>>

\* Writing the post raises (the output directory is missing).
BloggerWriteFails ==
    /\ pc = "blogger" /\ spc = "write"
    /\ Raise(3)
    /\ UNCHANGED <<clock, table, colSources, colItems, inserted, anRows, anRange,
                   ioVars, concVars, pureVars>>

Next ==
    \/ Tick
    \/ CliStart
    \/ CliInspectOrList
    \/ CollectorLoadConfig
    \/ CollectorLoadFails
    \/ CollectorFetchSource
    \/ CollectorFetchFails
    \/ CollectorInsert
    \/ CollectorReturn
    \/ AnalyzerFetch
    \/ AnalyzerBeginFails
    \/ AnalyzerRow
    \/ AnalyzerLlmFails
    \/ AnalyzerReturn
    \/ AnalyzerWriteFails
    \/ BloggerGenerate
    \/ BloggerFails
    \/ BloggerRun
    \/ BloggerWriteFails

Spec == Init /\ [][Next]_vars

(***************************************************************************)
(* Collector processes side by side on one store: each insert_news is two  *)
(* statements, the SELECT of exists_by_url_or_title and the INSERT, and    *)
(* the statements of the processes interleave.  An analyzer's UPDATE may   *)
(* come between them too.                                                  *)
(***************************************************************************)
MaxInserts == 2

\* The two collector processes.
Procs == {1, 2}

InitConc ==
    /\ InitStore /\ InitCli /\ InitTimeIdle /\ InitQueryIdle /\ InitFetchIdle /\ InitInspectIdle
    /\ cpc = [p \in Procs |-> "idle"]
    /\ citem = [p \in Procs |-> NoValue]
    /\ cins = [p \in Procs |-> 0]

\* insert_news, line 52: the existence check; FALSE is returned on a hit.
ConcCheck(p) ==
    /\ cpc[p] = "idle"
    /\ cins[p] < MaxInserts
    /\ \E item \in Items :
          LET news == NewsItem(item.url, item.title, item.published_date,
                               to_iso(now_utc), item.content, NULL)
          IN  IF exists_by_url_or_title(table, news.url, news.title)
              THEN /\ citem' = [citem EXCEPT ![p] = NoValue]
                   /\ UNCHANGED cpc
              ELSE /\ citem' = [citem EXCEPT ![p] = news]
                   /\ cpc' = [cpc EXCEPT ![p] = "checked"]
    /\ cins' = [cins EXCEPT ![p] = @ + 1]
    /\ UNCHANGED <<clock, table, cliVars, stageVars, ioVars, pureVars>>

\* insert_news, lines 54-69: the INSERT; an IntegrityError leaves insert_news and
\* the collector that called it.
ConcInsert(p) ==
    /\ cpc[p] = "checked"
    /\ LET ins == SqlInsert(table, citem[p])
       IN  /\ table' = ins.table
           /\ cpc' = [cpc EXCEPT ![p] = IF ins.error = NoValue THEN "idle" ELSE "raised"]
    /\ citem' = [citem EXCEPT ![p] = NoValue]
    /\ UNCHANGED <<clock, cins, cliVars, stageVars, ioVars, pureVars>>

\* update_summary, called by an analyzer for a row it fetched.
ConcUpdateSummary ==
    /\ \E r \in table, text \in LlmTexts :
          /\ Falsy(r.summary)
          /\ table' = update_summary(table, r.url, text)
    /\ UNCHANGED <<clock, cliVars, stageVars, ioVars, concVars, pureVars>>

NextConc ==
    \/ Tick
    \/ \E p \in Procs : ConcCheck(p)
    \/ \E p \in Procs : ConcInsert(p)
    \/ ConcUpdateSummary

SpecConc == InitConc /\ [][NextConc]_vars

(***************************************************************************)
(* fetch_by_collected_range on its own: a table and a range are given and  *)
(* the query is made.                                                      *)
(***************************************************************************)
\* The instants rows were collected at and ranges are cut at: the clock's, and
\* half a second after each of them.
QueryInstants ==
    { Instants[k] : k \in 0..MaxTick }
        \cup { [Instants[k] EXCEPT !.microsecond = 500000] : k \in {j \in 0..MaxTick : j % 2 = 0} }

QueryRows ==
    { NewsItem(u, t, NULL, to_iso(d), "c1", NULL) : u \in URLs, t \in Titles, d \in QueryInstants }

QueryTables ==
    { tbl \in SUBSET QueryRows :
        /\ Cardinality(tbl) <= Cardinality(URLs)
        /\ \A r1, r2 \in tbl : r1.url = r2.url => r1 = r2 }

InitQuery ==
    /\ InitCli /\ InitConcIdle /\ InitTimeIdle /\ InitFetchIdle /\ InitInspectIdle
    /\ clock = 0
    /\ table \in QueryTables
    /\ qStart \in { to_iso(d) : d \in QueryInstants }
    /\ qEnd \in { to_iso(d) : d \in QueryInstants }
    /\ qRows = <<>>
    /\ pcQ = "input"

QueryFetch ==
    /\ pcQ = "input"
    /\ \E rows \in fetch_by_collected_range(table, qStart, qEnd) : qRows' = rows
    /\ pcQ' = "done"
    /\ UNCHANGED <<clock, table, qStart, qEnd, cliVars, stageVars, ioVars, concVars, timeVars,
                   fetchVars, inspectVars>>

NextQuery == QueryFetch

SpecQuery == InitQuery /\ [][NextQuery]_vars

(***************************************************************************)
(* The datetimes the time helpers are tried on: every day within DaySpan   *)
(* days of a New Year, for NumYears consecutive years, at three clock      *)
(* times.                                                                  *)
(***************************************************************************)
FirstYear == 2019
NumYears == 9
DaySpan == 10

ClockTimes ==
    { <<0, 0, 0, 0>>, <<12, 30, 15, 500000>>, <<23, 59, 59, 999999>> }

AtClock(n, c) == DateTime(OrdYear(n), OrdMonth(n), OrdDay(n), c[1], c[2], c[3], c[4])

TimeInputs ==
    { AtClock(Ymd2Ord(y, 1, 1) + d, c) :
        y \in FirstYear..(FirstYear + NumYears - 1), d \in (-DaySpan)..DaySpan,
        c \in ClockTimes }

InitTime ==
    /\ dtIn \in TimeInputs
    /\ wb = NoValue
    /\ yw = NoValue
    /\ pcT = "input"
    /\ InitStore /\ InitCli /\ InitConcIdle /\ InitQueryIdle /\ InitFetchIdle /\ InitInspectIdle

\* analyzer.run, lines 43-45: both helpers applied to the same instant.
TimeApply ==
    /\ pcT = "input"
    /\ yw' = iso_year_week(dtIn)
    /\ wb' = iso_week_bounds(dtIn)
    /\ pcT' = "done"
    /\ UNCHANGED <<dtIn, clock, table, cliVars, stageVars, ioVars, concVars, queryVars,
                   fetchVars, inspectVars>>

NextTime == TimeApply

SpecTime == InitTime /\ [][NextTime]_vars

(***************************************************************************)
(* src/collector/collector.py: the four strategies and the four listings,  *)
(* each on one configured source and on what the source serves.            *)
(***************************************************************************)
\* A URL as urlsplit takes it apart; a path is the sequence of its pieces, "/" one
\* of them.  The empty string (and None) is the URL with nothing in it.
Url(scheme, netloc, path, query) ==
    [scheme |-> scheme, netloc |-> netloc, path |-> path, query |-> query, fragment |-> ""]

NoUrl == Url("", "", <<>>, "")

\* str.lower() on the spellings that occur.
Lower(text) ==
    CASE text = "HTTPS" -> "https"
      [] text = "News.Example" -> "news.example"
      [] OTHER -> text

\* _normalize_url: scheme and host in lower case, an empty path "/", one trailing
\* slash dropped, query and fragment dropped.
normalize_url(url) ==
    LET path == IF url.path = <<>> THEN <<"/">> ELSE url.path
    IN  [scheme   |-> Lower(url.scheme),
         netloc   |-> Lower(url.netloc),
         path     |-> IF path # <<"/">> /\ path[Len(path)] = "/"
                      THEN SubSeq(path, 1, Len(path) - 1) ELSE path,
         query    |-> "",
         fragment |-> ""]

\* The comparison with the candidate taken as it is written.
is_same_url_exact(candidate, source_norm) == candidate = source_norm

\* _is_same_url
is_same_url(candidate, source_norm) == normalize_url(candidate) = source_norm

\* " ".join(text.split()): the words, blanks between and around them collapsed.
JoinWords(text) == SelectSeq(text, LAMBDA piece : piece # " ")

\* No published date (None), and a date as the text a page or a field shows.
NoDate == <<>>

\* _parse_entry_datetime: the first of published, updated, created that is there
\* and parses; `dates` holds the three in that order.
RECURSIVE parse_entry_datetime(_)
parse_entry_datetime(dates) ==
    IF dates = <<>> THEN [found |-> FALSE, dt |-> Instants[0]]
    ELSE IF Head(dates).kind = "ok" THEN [found |-> TRUE, dt |-> Head(dates).dt]
    ELSE parse_entry_datetime(Tail(dates))

\* The lookback test with undated entries dropped as well.
TooOldOrUndated(published, cutoff) == ~published.found \/ DtLT(published.dt, cutoff)

\* fetch_rss line 122: "published_dt is not None and published_dt < cutoff".
TooOld(published, cutoff) == published.found /\ DtLT(published.dt, cutoff)

\* The limit test let through once more.
AtLimitOffByOne(count, limit) == count > limit

\* "if len(items) >= limit: break"
AtLimit(count, limit) == count >= limit

\* One item of a strategy's result.
FetchedItem(url, title, published_date, content) ==
    [url |-> url, title |-> title, published_date |-> published_date, content |-> content]

\* _fetch_html_article / _fetch_js_article: None (here found = FALSE) when the page
\* cannot be fetched or shows no title or no content.
fetch_article(url, page) ==
    LET title == JoinWords(page.title)
    IN  IF ~page.ok \/ title = <<>> \/ page.content = ""
        THEN [found |-> FALSE, item |-> FetchedItem(url, <<>>, NoDate, "")]
        ELSE [found |-> TRUE, item |-> FetchedItem(url, title, page.date, page.content)]

\* The entry of a feed dropped when its page cannot be fetched.
RssEntryNeedsPage(entry, cutoff, source_norm) ==
    LET published == parse_entry_datetime(entry.dates)
        title     == Strip(entry.title)
        full_text == IF entry.page.ok THEN entry.page.content ELSE ""
        skipped   == \/ TooOld(published, cutoff)
                     \/ entry.link = NoUrl \/ title = <<>>
                     \/ is_same_url(entry.link, source_norm)
                     \/ ~entry.page.ok
    IN  [skip |-> skipped, req |-> ~skipped,
         item |-> FetchedItem(entry.link, title,
                              IF published.found THEN to_iso(published.dt) ELSE NoDate,
                              IF full_text # "" THEN full_text ELSE entry.content)]

\* The body of one pass of a strategy's for loop over what the source lists:
\* whether the entry is skipped, whether its page was requested, and the item.
RssEntry(entry, cutoff, source_norm) ==
    LET published == parse_entry_datetime(entry.dates)
        title     == Strip(entry.title)
        full_text == IF entry.page.ok THEN entry.page.content ELSE ""
        skipped   == \/ TooOld(published, cutoff)
                     \/ entry.link = NoUrl \/ title = <<>>
                     \/ is_same_url(entry.link, source_norm)
    IN  [skip |-> skipped, req |-> ~skipped,
         item |-> FetchedItem(entry.link, title,
                              IF published.found THEN to_iso(published.dt) ELSE NoDate,
                              IF full_text # "" THEN full_text ELSE entry.content)]

HtmlEntry(entry, source_norm) ==
    LET listed  == entry.link # NoUrl /\ ~is_same_url(entry.link, source_norm)
        article == fetch_article(entry.link, entry.page)
    IN  [skip |-> ~listed \/ ~article.found, req |-> listed, item |-> article.item]

ApiEntry(entry, source_norm) ==
    LET skipped == \/ entry.link = NoUrl \/ entry.title = <<>>
                   \/ is_same_url(entry.link, source_norm)
    IN  [skip |-> skipped, req |-> FALSE,
         item |-> FetchedItem(entry.link, Strip(entry.title), entry.date, entry.content)]

StrategyEntry(type, entry, cutoff, source_norm) ==
    CASE type = "rss" -> RssEntry(entry, cutoff, source_norm)
      [] type = "api" -> ApiEntry(entry, source_norm)
      [] OTHER -> HtmlEntry(entry, source_norm)

\* The for loop of fetch_rss, fetch_html and fetch_api, and the second loop of
\* fetch_js: entries[i..], with the items and the page requests so far.
RECURSIVE FetchLoop(_, _, _, _, _, _, _, _)
FetchLoop(type, entries, i, items, reqs, limit, cutoff, source_norm) ==
    IF i > Len(entries) \/ AtLimit(Len(items), limit)
    THEN [items |-> items, reqs |-> reqs]
    ELSE LET e == StrategyEntry(type, entries[i], cutoff, source_norm)
         IN  FetchLoop(type, entries, i + 1,
                       IF e.skip THEN items ELSE Append(items, e.item),
                       IF e.req THEN Append(reqs, <<"article", i>>) ELSE reqs,
                       limit, cutoff, source_norm)

\* fetch_js lines 217-227: the links collected first; the limit is tested after
\* each element that is not the source itself.
RECURSIVE JsHrefs(_, _, _, _, _)
JsHrefs(entries, i, hrefs, limit, source_norm) ==
    IF i > Len(entries) THEN hrefs
    ELSE IF entries[i].link # NoUrl /\ is_same_url(entries[i].link, source_norm)
         THEN JsHrefs(entries, i + 1, hrefs, limit, source_norm)
    ELSE LET next == IF entries[i].link # NoUrl THEN Append(hrefs, i) ELSE hrefs
         IN  IF AtLimit(Len(next), limit) THEN next
             ELSE JsHrefs(entries, i + 1, next, limit, source_norm)

\* What a strategy hands back: its items and the article pages it requested, or
\* the exception it raised.
Fetched(loop) == [status |-> "ok", items |-> loop.items, reqs |-> loop.reqs]

Raised(exception) == [status |-> exception, items |-> <<>>, reqs |-> <<>>]

\* now - timedelta(days=lookback_days)
Cutoff(now, lookback_days) == AddDays(now, 0 - lookback_days)

\* feedparser.parse does not raise: a feed that cannot be read has no entries.
fetch_rss(source, limit, lookback_days, now) ==
    Fetched(FetchLoop("rss", IF source.listing = "ok" THEN source.entries ELSE <<>>,
                      1, <<>>, <<>>, limit, Cutoff(now, lookback_days),
                      normalize_url(source.url)))

fetch_html(source, limit) ==
    IF ~source.howto THEN Raised("ValueError")
    ELSE IF source.listing # "ok" THEN Raised("RuntimeError")
    ELSE Fetched(FetchLoop("html", source.entries, 1, <<>>, <<>>, limit,
                           Instants[0], normalize_url(source.url)))

fetch_js(source, limit) ==
    IF ~source.howto THEN Raised("ValueError")
    ELSE IF source.listing # "ok" THEN Raised("PlaywrightError")
    ELSE LET hrefs == JsHrefs(source.entries, 1, <<>>, limit, normalize_url(source.url))
             pages == [k \in 1..Len(hrefs) |-> source.entries[hrefs[k]]]
         IN  Fetched(FetchLoop("js", pages, 1, <<>>, <<>>, limit, Instants[0],
                               normalize_url(source.url)))

fetch_api(source, limit) ==
    IF ~source.howto THEN Raised("ValueError")
    ELSE IF source.listing # "ok" THEN Raised("HTTPError")
    ELSE Fetched(FetchLoop("api", source.entries, 1, <<>>, <<>>, limit,
                           Instants[0], normalize_url(source.url)))

\* The body of one pass of a listing's for loop.
ListedUrl(type, entry, cutoff, source_norm) ==
    /\ type = "rss" => ~TooOld(parse_entry_datetime(entry.dates), cutoff)
    /\ entry.link # NoUrl
    /\ ~is_same_url(entry.link, source_norm)

\* The for loop of list_rss_urls, list_html_urls, list_js_urls and list_api_urls.
RECURSIVE ListLoop(_, _, _, _, _, _, _)
ListLoop(type, entries, i, urls, limit, cutoff, source_norm) ==
    IF i > Len(entries) \/ AtLimit(Len(urls), limit) THEN urls
    ELSE ListLoop(type, entries, i + 1,
                  IF ListedUrl(type, entries[i], cutoff, source_norm)
                  THEN Append(urls, entries[i].link) ELSE urls,
                  limit, cutoff, source_norm)

Listed(urls) == [status |-> "ok", items |-> urls, reqs |-> <<>>]

list_rss_urls(source, limit, lookback_days, now) ==
    Listed(ListLoop("rss", IF source.listing = "ok" THEN source.entries ELSE <<>>, 1,
                    <<>>, limit, Cutoff(now, lookback_days), normalize_url(source.url)))

list_html_urls(source, limit) ==
    IF ~source.howto THEN Raised("ValueError")
    ELSE IF source.listing # "ok" THEN Raised("RuntimeError")
    ELSE Listed(ListLoop("html", source.entries, 1, <<>>, limit, Instants[0],
                         normalize_url(source.url)))

list_js_urls(source, limit) ==
    IF ~source.howto THEN Raised("ValueError")
    ELSE IF source.listing # "ok" THEN Raised("PlaywrightError")
    ELSE Listed(ListLoop("js", source.entries, 1, <<>>, limit, Instants[0],
                         normalize_url(source.url)))

\* howto is the url_field here; without it the field is looked for in the first
\* item, which has none of the names tried when no item is there.
list_api_urls(source, limit) ==
    IF source.listing # "ok" THEN Raised("HTTPError")
    ELSE IF ~source.howto /\ source.entries = <<>> THEN Raised("ValueError")
    ELSE Listed(ListLoop("api", source.entries, 1, <<>>, limit, Instants[0],
                         normalize_url(source.url)))

\* collector.run lines 55-66: the strategy is chosen by the type alone.
FetchByType(source, limit, lookback_days, now) ==
    CASE source.type = "rss"  -> fetch_rss(source, limit, lookback_days, now)
      [] source.type = "html" -> fetch_html(source, limit)
      [] source.type = "js"   -> fetch_js(source, limit)
      [] source.type = "api"  -> fetch_api(source, limit)
      [] OTHER -> Raised("ValueError")

\* list_source_urls lines 88-100
ListByType(source, limit, lookback_days, now) ==
    CASE source.type = "rss"  -> list_rss_urls(source, limit, lookback_days, now)
      [] source.type = "html" -> list_html_urls(source, limit)
      [] source.type = "js"   -> list_js_urls(source, limit)
      [] source.type = "api"  -> list_api_urls(source, limit)
      [] OTHER -> Raised("ValueError")

(***************************************************************************)
(* One source collected, or listed, on an empty store.                     *)
(***************************************************************************)
MaxEntries == 3
MaxLimit == 2

SourceUrl == Url("https", "news.example", <<"/", "feed">>, "")

\* Links of entries: two articles and the source under other spellings.
LinkA == Url("https", "news.example", <<"/", "a">>, "")
LinkB == Url("https", "news.example", <<"/", "b">>, "q")
LinkSelf == Url("HTTPS", "News.Example", <<"/", "feed", "/">>, "q")
\* The path of the source with two slashes after it.
LinkSlashes == Url("https", "news.example", <<"/", "feed", "/", "/">>, "")

\* A date field of a feed entry: not there, not a date, or a date.
Absent == [kind |-> "absent", dt |-> Instants[0]]
Unparseable == [kind |-> "bad", dt |-> Instants[0]]
Dated(dt) == [kind |-> "ok", dt |-> dt]

\* What the article page of an entry shows when it is requested.
Page(ok, title, date, content) ==
    [ok |-> ok, title |-> title, date |-> date, content |-> content]

\* An entry of a feed, a link element of a listing page, an item of an API list.
RawEntry(link, title, dates, date, content, page) ==
    [link |-> link, title |-> title, dates |-> dates, date |-> date,
     content |-> content, page |-> page]

FetchEntries ==
    { RawEntry(LinkA, <<"t1">>, <<Dated(Instants[1]), Absent, Absent>>, <<"p1">>, "c1",
               Page(TRUE, <<"t1">>, <<"p1">>, "c2")),
      RawEntry(LinkB, <<" ", "t2", " ">>,
               <<Unparseable, Dated(AddDays(Instants[0], 0 - 1)), Absent>>, NoDate, "c1",
               Page(TRUE, <<" ", "t2">>, NoDate, "c2")),
      RawEntry(LinkB, <<"t2">>, <<Absent, Unparseable, Absent>>, NoDate, "",
               Page(FALSE, <<>>, NoDate, "")),
      RawEntry(LinkA, <<" ">>, <<Absent, Absent, Dated(Instants[0])>>, <<"p1">>, "c1",
               Page(TRUE, <<" ">>, NoDate, "c2")),
      RawEntry(LinkSelf, <<"t1">>, <<Absent, Absent, Absent>>, NoDate, "c1",
               Page(TRUE, <<"t1">>, NoDate, "")),
      RawEntry(NoUrl, <<"t2">>, <<Dated(Instants[2]), Absent, Absent>>, NoDate, "c1",
               Page(FALSE, <<>>, NoDate, "")),
      RawEntry(LinkSlashes, <<"t1">>, <<Absent, Absent, Absent>>, <<"p1">>, "c1",
               Page(TRUE, <<"t1">>, <<"p1">>, "c2")) }

EntryLists == UNION { [1..n -> FetchEntries] : n \in 0..MaxEntries }

LookbackDays == {0, 7}

\* A source of the configuration with the run's max_items_per_source and
\* lookback_days, and what it serves.  howto: the fields the strategy requires are
\* there.  listing: whether the source itself can be fetched.
FetchSources ==
    [type : {"rss"}, url : {SourceUrl}, max_items_per_source : 0..MaxLimit,
     lookback_days : LookbackDays, howto : {TRUE}, listing : {"ok", "fail"},
     entries : EntryLists]
    \cup
    [type : {"html", "js", "api"}, url : {SourceUrl}, max_items_per_source : 0..MaxLimit,
     lookback_days : {7}, howto : BOOLEAN, listing : {"ok", "fail"}, entries : EntryLists]
    \cup
    [type : {"other", NoValue}, url : {SourceUrl}, max_items_per_source : 0..MaxLimit,
     lookback_days : {7}, howto : {TRUE}, listing : {"ok"}, entries : {<<>>}]

InitFetch ==
    /\ clock = MaxTick
    /\ table = {}
    /\ InitCli /\ InitConcIdle /\ InitTimeIdle /\ InitQueryIdle /\ InitInspectIdle
    /\ fSource \in FetchSources
    /\ fResult = [status |-> "none"]
    /\ fLeft = <<>>
    /\ pcF = "input"

\* collector.run lines 54-66 on the source.
FetchSource ==
    /\ pcF = "input"
    /\ fResult' = FetchByType(fSource, fSource.max_items_per_source,
                              fSource.lookback_days, now_utc)
    /\ fLeft' = fResult'.items
    /\ pcF' = IF fResult'.status = "ok" /\ fLeft' # <<>> THEN "storing" ELSE "done"
    /\ UNCHANGED <<clock, table, cliVars, stageVars, ioVars, concVars, timeVars,
                   queryVars, inspectVars, fSource>>

\* collector.run lines 68-81: the next item of the strategy is handed to the store.
FetchStore ==
    /\ pcF = "storing"
    /\ LET item == Head(fLeft)
           news == NewsItem(item.url, item.title, item.published_date,
                            to_iso(now_utc), item.content, NULL)
       IN  table' = insert_news(table, news).table
    /\ fLeft' = Tail(fLeft)
    /\ pcF' = IF fLeft' = <<>> THEN "done" ELSE "storing"
    /\ UNCHANGED <<clock, cliVars, stageVars, ioVars, concVars, timeVars, queryVars,
                   inspectVars, fSource, fResult>>

\* list_source_urls lines 87-104 on the source.
ListSource ==
    /\ pcF = "input"
    /\ fResult' = ListByType(fSource, fSource.max_items_per_source,
                             fSource.lookback_days, now_utc)
    /\ fLeft' = <<>>
    /\ pcF' = "listed"
    /\ UNCHANGED <<clock, table, cliVars, stageVars, ioVars, concVars, timeVars,
                   queryVars, inspectVars, fSource>>

NextFetch == FetchSource \/ FetchStore \/ ListSource

SpecFetch == InitFetch /\ [][NextFetch]_vars

(***************************************************************************)
(* src/collector/source_inspector.py: run on one URL.                      *)
(***************************************************************************)
ItemFields == {"name", "url", "type", "howto"}

\* _validate_output lines 355-385: the fields each howto section has to carry.
RequiredFields(source_type) ==
    CASE source_type = "rss"  -> {"item_limit", "date_field"}
      [] source_type = "html" -> {"list_selector", "title_selector", "date_selector",
                                  "content_selector"}
      [] source_type = "js"   -> {"list_selector", "title_selector", "date_selector",
                                  "content_selector", "wait_for", "wait_ms", "strategy",
                                  "notes"}
      [] source_type = "api"  -> {"items_path", "url_field", "title_field"}
      [] OTHER -> {}

\* The howto section named after the type: not a mapping, or the fields it has.
Section(is_dict, fields) == [is_dict |-> is_dict, fields |-> fields]

Sections(source_type) ==
    { Section(FALSE, {}), Section(TRUE, RequiredFields(source_type)) }
        \cup { Section(TRUE, RequiredFields(source_type) \ {f}) : f \in RequiredFields(source_type) }

\* What yaml.safe_load makes of the text the model emitted: no YAML at all, a
\* value that is no list, an empty list, or a list with its first item.
Stub(kind, mapping, fields, source_type, howto_is_dict, section, quoted) ==
    [kind |-> kind, mapping |-> mapping, fields |-> fields, type |-> source_type,
     howto_is_dict |-> howto_is_dict, section |-> section, quoted |-> quoted]

NoStub == Stub("none", FALSE, {}, "other", FALSE, Section(FALSE, {}), FALSE)

Stubs ==
    { Stub(kind, FALSE, {}, "other", FALSE, Section(FALSE, {}), FALSE) :
        kind \in {"not_yaml", "scalar", "empty_list", "list"} }
    \cup
    UNION { { Stub("list", TRUE, fields, source_type, howto_is_dict, section, FALSE) :
                fields \in SUBSET ItemFields, howto_is_dict \in BOOLEAN,
                section \in Sections(source_type) } :
            source_type \in SourceTypes }

\* _require_fields
require_fields(section, fields) ==
    IF ~section.is_dict THEN "ValueError"
    ELSE IF \E f \in fields : f \notin section.fields THEN "ValueError"
    ELSE NoValue

\* _validate_output: the exception it raises, or NoValue.
validate_output(stub) ==
    IF stub.kind = "not_yaml" THEN "ValueError"
    ELSE IF stub.kind # "list" THEN "ValueError"
    ELSE IF ~stub.mapping THEN "ValueError"
    ELSE IF \E field \in ItemFields : field \notin stub.fields THEN "ValueError"
    ELSE IF ~stub.howto_is_dict THEN "ValueError"
    ELSE IF stub.type \in {"rss", "html", "js", "api"}
         THEN require_fields(stub.section, RequiredFields(stub.type))
    ELSE "ValueError"

\* _quote_all_strings: the same data dumped with every string quoted.
quote_all_strings(stub) == [stub EXCEPT !.quoted = TRUE]

\* run lines 30-37: a failed validation is logged and the text returned as it is.
InspectResult(stub) ==
    IF validate_output(stub) = NoValue
    THEN [status |-> "returned", output |-> quote_all_strings(stub)]
    ELSE [status |-> "returned", output |-> stub]

InitInspect ==
    /\ InitStore /\ InitCli /\ InitConcIdle /\ InitTimeIdle /\ InitQueryIdle
    /\ InitFetchIdle
    /\ iOutput = NoStub
    /\ iReturned = NoStub
    /\ pcI = "begin"

\* run lines 17-28: the page is fetched and the model asked for the stub.
InspectAnalyze ==
    /\ pcI = "begin"
    /\ \E stub \in Stubs : iOutput' = stub
    /\ pcI' = "validate"
    /\ UNCHANGED <<clock, table, cliVars, stageVars, ioVars, concVars, timeVars,
                   queryVars, fetchVars, iReturned>>

\* load_yaml, LLMConfig.api_key or the request to the model raises.
InspectAnalyzeFails ==
    /\ pcI = "begin"
    /\ pcI' = "raised"
    /\ UNCHANGED <<clock, table, cliVars, stageVars, ioVars, concVars, timeVars,
                   queryVars, fetchVars, iOutput, iReturned>>

\* run lines 30-37
InspectValidate ==
    /\ pcI = "validate"
    /\ pcI' = InspectResult(iOutput).status
    /\ iReturned' = InspectResult(iOutput).output
    /\ UNCHANGED <<clock, table, cliVars, stageVars, ioVars, concVars, timeVars,
                   queryVars, fetchVars, iOutput>>

NextInspect == InspectAnalyze \/ InspectAnalyzeFails \/ InspectValidate

SpecInspect == InitInspect /\ [][NextInspect]_vars

(***************************************************************************)
(* C1: in every reachable state of the news table no two rows have the     *)
(* same URL, after any sequence of insert_news and update_summary calls,   *)
(* also when the insert_news calls of two collector processes interleave   *)
(* between the existence check and the INSERT.                             *)
(***************************************************************************)
C1_UrlUnique == \A r1, r2 \in table : r1.url = r2.url => r1 = r2

\* A process passed its check, another stored the same URL, and the first one's
\* INSERT met the PRIMARY KEY; a summary has been written as well.
C1_Witness ==
    /\ \E p \in DOMAIN cpc : cpc[p] = "raised"
    /\ \E r \in table : r.summary # NULL
    /\ Cardinality(table) = 2

(***************************************************************************)
(* C2: after any sequence of insert_news calls made one at a time on an    *)
(* initially empty store no two rows share a title: a call whose item has  *)
(* the title of an existing row is rejected even when its URL is new.      *)
(***************************************************************************)
C2_TitleUnique ==
    /\ \A r1, r2 \in table : r1.title = r2.title => r1 = r2
    /\ inserted.ret = "True" =>
          /\ inserted.news \in table
          /\ \A r \in table : r.title = inserted.news.title => r = inserted.news

\* An item with a new URL and the title of a stored row was turned down.
C2_Witness ==
    /\ inserted.ret = "False"
    /\ \A r \in table : r.url # inserted.news.url
    /\ \E r \in table : r.title = inserted.news.title

(***************************************************************************)
(* C3: insert_news is a single insert-or-skip: it returns True exactly     *)
(* when no existing row has the item's URL or title, and then the table    *)
(* gains exactly that row, all other rows unchanged; otherwise it returns  *)
(* False and the table is unchanged.  The same item inserted twice gives   *)
(* True, then False.                                                       *)
(***************************************************************************)
InsertStep == pc = "collector" /\ spc = "loop" /\ colItems > 0 /\ colItems' # colItems

C3_InsertOrSkip ==
    [][InsertStep =>
          LET news == inserted'.news
              free == \A r \in table : r.url # news.url /\ r.title # news.title
          IN  /\ inserted'.ret \in {"True", "False"}
              /\ inserted'.ret = "True" <=> free
              /\ free => table' = table \cup {news} /\ news \notin table
              /\ ~free => table' = table
              /\ (inserted.ret = "True" /\ inserted.news = news) => inserted'.ret = "False"]_vars

\* The same item was handed to insert_news a second time and turned down.
C3_Witness ==
    /\ inserted.ret = "False"
    /\ inserted.news \in table

(***************************************************************************)
(* C4: over any sequence of analyzer runs interleaved with collector runs  *)
(* the summary of a row is written at most once: once the analyzer has     *)
(* written a row's summary no later run calls update_summary for that row  *)
(* again, whatever text the language model returned.  Stated as: a row     *)
(* whose summary is set stays as it is.                                    *)
(***************************************************************************)
C4_SummaryWrittenOnce ==
    [][\A r \in table : r.summary # NULL => r \in table']_vars

(***************************************************************************)
(* C5: rows are created only by the collector, with summary NULL; after    *)
(* creation url, title, published_date, collected_date and content never   *)
(* change and the row is never deleted by a collector, analyzer or blogger *)
(* step: the set of URLs only grows.                                       *)
(***************************************************************************)
SameButSummary(r, r2) == r2 = [r EXCEPT !.summary = r2.summary]

C5_RowsImmutable ==
    [][/\ \A r \in table : \E r2 \in table' : SameButSummary(r, r2)
       /\ \A r2 \in table' :
             \/ \E r \in table : SameButSummary(r, r2)
             \/ pc = "collector" /\ r2.summary = NULL
                  /\ \A r \in table : r.url # r2.url
       /\ pc # "analyzer" => \A r \in table : r \in table'
       /\ Cardinality(table') >= Cardinality(table)]_vars

\* Two rows were created and the analyzer has written a summary.
C5_Witness ==
    /\ Cardinality(table) = 2
    /\ \E r \in table : r.summary = "s1"
    /\ pc = "blogger"

(***************************************************************************)
(* C6: the CLI composes the stages in the fixed order collector, analyzer, *)
(* blogger whatever the order of the names in --run: a selected collector  *)
(* finishes before a selected analyzer starts, a selected analyzer before  *)
(* a selected blogger, each selected stage runs exactly once and no stage  *)
(* is re-entered.  (A stage that raises ends the invocation.)              *)
(***************************************************************************)
StageCalls(name, items) ==
    IF \E i \in 1..Len(items) : items[i] = <<name>>
    THEN <<<<name, "start">>, <<name, "end">>>>
    ELSE <<>>

ExpectedTrace(items) ==
    StageCalls("collector", items) \o StageCalls("analyzer", items)
        \o StageCalls("blogger", items)

C6_FixedOrder ==
    args.mode = "run" =>
        LET want == ExpectedTrace(run_list)
            n    == Len(trace)
        IN  /\ n <= Len(want)
            /\ \A i \in 1..n :
                  \/ trace[i] = want[i]
                  \/ /\ i = n /\ outcome = "error"
                     /\ want[i][2] = "end" /\ trace[i] = <<want[i][1], "raise">>
            /\ \A i, j \in 1..n : (i # j /\ trace[i][2] = "start") => trace[i] # trace[j]
            /\ outcome = "ok" => trace = want
            /\ pc # "idle" => (n > 0 /\ trace[n] = <<pc, "start">>)
            /\ pc = "idle" => (n = 0 \/ trace[n][2] # "start")

\* The names given in the reverse order, and all three stages run to their end.
C6_Witness ==
    /\ args.mode = "run"
    /\ args.run = <<"blogger", ",", "analyzer", ",", "collector">>
    /\ outcome = "ok"
    /\ trace = <<<<"collector", "start">>, <<"collector", "end">>,
                 <<"analyzer", "start">>, <<"analyzer", "end">>,
                 <<"blogger", "start">>, <<"blogger", "end">>>>

(***************************************************************************)
(* C7: validate_run_list raises ValueError exactly when the run list has   *)
(* collector and blogger but not analyzer, and accepts every other list;   *)
(* when it raises no stage has run.  So in an accepted invocation where    *)
(* collector and blogger both run, analyzer runs between them.             *)
(***************************************************************************)
Has(name) == \E i \in 1..Len(run_list) : run_list[i] = <<name>>

Ran(name) == \E i \in 1..Len(trace) : trace[i] = <<name, "start">>

C7_Validate ==
    args.mode = "run" =>
        /\ (Has("collector") /\ Has("blogger") /\ ~Has("analyzer"))
              <=> (pc = "idle" /\ outcome = "error" /\ trace = <<>>)
        /\ (Ran("collector") /\ Ran("blogger")) =>
              \E i, j, k, l \in 1..Len(trace) :
                  /\ i < j /\ j < k /\ k < l
                  /\ trace[i] = <<"collector", "end">>
                  /\ trace[j] = <<"analyzer", "start">>
                  /\ trace[k] = <<"analyzer", "end">>
                  /\ trace[l] = <<"blogger", "start">>

\* The list blogger,collector was refused before any stage ran.
C7_Witness ==
    /\ args.mode = "run"
    /\ run_list = <<<<"blogger">>, <<"collector">>>>
    /\ outcome = "error"
    /\ trace = <<>>

(***************************************************************************)
(* C8: a stage runs if and only if its name is in the run list: --run      *)
(* pipeline stands for collector,analyzer,blogger, a comma-separated list  *)
(* selects exactly the stages it names (blank entries dropped), and a list *)
(* that names none of the three runs no stage.  (Read for an invocation    *)
(* that is accepted and in which no stage raises.)                         *)
(***************************************************************************)
\* name is one of the comma-separated entries of the --run string, blanks around
\* it aside, or the string is "pipeline".
Named(name, run) ==
    \/ run = <<"pipeline">>
    \/ \E i, j \in 1..Len(run) :
          /\ i <= j
          /\ i = 1 \/ run[i - 1] = ","
          /\ j = Len(run) \/ run[j + 1] = ","
          /\ \E m \in i..j :
                /\ run[m] = name
                /\ \A k \in i..j : k # m => run[k] = " "

C8_RunsWhatIsNamed ==
    args.mode = "run" =>
        \A k \in 1..3 :
            /\ Ran(Stages[k]) => Named(Stages[k], args.run)
            /\ outcome = "ok" =>
                  (Named(Stages[k], args.run) <=>
                      \E i \in 1..Len(trace) : trace[i] = <<Stages[k], "end">>)

\* A list with blanks, empty entries and an unknown name ran the one stage it names.
C8_Witness ==
    /\ args.mode = "run"
    /\ args.run = <<" ", "analyzer", " ", ",", ",", " ", ",", "other">>
    /\ outcome = "ok"
    /\ trace = <<<<"analyzer", "start">>, <<"analyzer", "end">>>>

(***************************************************************************)
(* C9: fetch_by_collected_range(start, end) returns exactly the rows with  *)
(* start <= collected_date < end (start inclusive, end exclusive), each    *)
(* once, in ascending collected_date order, and leaves the table as it is. *)
(* The order meant is that of the instants the strings stand for.          *)
(***************************************************************************)
InstantOf(iso) == CHOOSE d \in QueryInstants : to_iso(d) = iso

C9_RangeQuery ==
    /\ [](pcQ = "done" =>
            /\ { qRows[i] : i \in 1..Len(qRows) }
                  = { r \in table : /\ DtLE(InstantOf(qStart), InstantOf(r.collected_date))
                                    /\ DtLT(InstantOf(r.collected_date), InstantOf(qEnd)) }
            /\ \A i, j \in 1..Len(qRows) : i # j => qRows[i] # qRows[j]
            /\ \A i, j \in 1..Len(qRows) :
                  i < j => DtLE(InstantOf(qRows[i].collected_date),
                                InstantOf(qRows[j].collected_date)))
    /\ [][table' = table]_vars

\* Of two rows, the one collected at the start of the range is returned and the
\* one collected at its end is not.
C9_Witness ==
    /\ pcQ = "done"
    /\ Len(qRows) = 1
    /\ qRows[1].collected_date = qStart
    /\ \E r \in table : r.collected_date = qEnd
    /\ qStart # qEnd

(***************************************************************************)
(* C10: for every datetime dt, iso_week_bounds(dt) = (start, end) has      *)
(* start < end, end - start exactly 7 days, start at 00:00 on the Monday   *)
(* of dt's ISO week, start <= dt < end, and every instant in [start, end)  *)
(* has the iso_year_week of dt: the (year, week) of the analyzer's file    *)
(* name names the week of the range it queries, also across a New Year.    *)
(***************************************************************************)
InstantsOfWeek(b) ==
    { x \in { AtClock(n, c) : n \in ToOrdinal(b.start)..ToOrdinal(b.end), c \in ClockTimes } :
        DtLE(b.start, x) /\ DtLT(x, b.end) }

NoSummary(row) == row.summary = NULL \/ row.summary = ""

AnalyzerRowStep ==
    /\ pc = "analyzer" /\ spc = "loop" /\ anRows # <<>>
    /\ pc' = "analyzer" /\ anRows' = Tail(anRows)

C11_OncePerItem ==
    /\ [](pc = "analyzer" /\ spc = "loop" =>
            /\ \A i, j \in 1..Len(calls) : calls[i] = calls[j] => i = j
            /\ \A i \in 1..Len(calls) :
                  \E k \in 1..Len(lines) : calls[i] = <<"llm", lines[k].url>>
            /\ \A k \in 1..Len(lines) :
                  (\A i \in 1..Len(calls) : calls[i] # <<"llm", lines[k].url>>)
                      /\ ~args.skip_summarize => lines[k].summary # "")
    /\ [](pc = "blogger" /\ spc = "write" => calls = << <<"llm", "blog">> >>)
    /\ [](pc = "idle" /\ outcome = "ok" /\ trace # <<>>
             /\ trace[Len(trace)] = <<"blogger", "end">> => calls = << <<"llm", "blog">> >>)
    /\ [][AnalyzerRowStep /\ ~args.skip_summarize =>
             LET row == Head(anRows)
             IN  calls' = IF NoSummary(row) THEN Append(calls, <<"llm", row.url>>)
                                            ELSE calls]_vars

\* One run met a row that had its summary and a row that had none: two entries
\* rendered, one request made.
C11_Witness ==
    /\ pc = "analyzer" /\ spc = "loop" /\ ~args.skip_summarize
    /\ Len(lines) = 2 /\ Len(calls) = 1
    /\ lines[1].summary # "" /\ lines[2].summary # ""

(***************************************************************************)
(* C12: an analyzer run with skip_summarize set asks the language model    *)
(* nothing and calls update_summary for no row: every step of the run      *)
(* leaves the table as it was, and the one effect is the weekly file,      *)
(* written when the run returns; a row without a summary is rendered with  *)
(* an empty summary.                                                       *)
(***************************************************************************)
C12_SkipSummarize ==
    /\ [](pc = "analyzer" /\ args.skip_summarize =>
            /\ calls = <<>>
            /\ \A k \in 1..Len(lines) :
                  \E r \in table :
                      /\ r.url = lines[k].url
                      /\ lines[k].summary = IF NoSummary(r) THEN "" ELSE r.summary)
    /\ [][pc = "analyzer" /\ args.skip_summarize =>
             /\ table' = table
             /\ calls' = calls
             /\ files' # files =>
                   /\ pc' # "analyzer" /\ outcome' # "error"
                   /\ files' = WriteFile(files, NewsPath(anWeek), "analyzer", Len(lines))]_vars

\* A run with the flag set has returned: its weekly file lists a row that still
\* has no summary.
C12_Witness ==
    /\ pc = "idle" /\ outcome = "ok" /\ args.mode = "run" /\ args.skip_summarize
    /\ trace # <<>> /\ trace[Len(trace)] = <<"analyzer", "end">>
    /\ \E r \in table : r.summary = NULL
    /\ analyzer_output \in DOMAIN files
    /\ files[analyzer_output] = [by |-> "analyzer", content |-> Cardinality(table)]

OtherFilesKept(path) ==
    \A p \in DOMAIN files : p # path => p \in DOMAIN files' /\ files'[p] = files[p]

StrategyTypes == {"rss", "html", "js", "api"}

Collected == pcF \in {"storing", "done"}

C14_DispatchAndShape ==
    /\ Collected /\ fSource.type \notin StrategyTypes
          => fResult = Raised("ValueError") /\ table = {}
    /\ Collected /\ fSource.type \in StrategyTypes
          => fResult = FetchByType(fSource, fSource.max_items_per_source,
                                   fSource.lookback_days, now_utc)
    /\ \A r \in table :
          /\ r.url # NoUrl
          /\ r.title # <<>>
          /\ r.collected_date = to_iso(now_utc)
          /\ r.content \in {"", "c1", "c2"}

(***************************************************************************)
(* C15: a stub that the inspector's run returns is a non-empty YAML list   *)
(* whose first item is a mapping with name, url, type and howto, the type  *)
(* one of rss, html, js and api, and the howto section of that type with   *)
(* all of its required fields.                                             *)
(***************************************************************************)
WellFormed(stub) ==
    /\ stub.kind = "list"
    /\ stub.mapping
    /\ ItemFields \subseteq stub.fields
    /\ stub.type \in StrategyTypes
    /\ stub.howto_is_dict
    /\ stub.section.is_dict
    /\ RequiredFields(stub.type) \subseteq stub.section.fields

C15_ReturnedStubValid == pcI = "returned" => WellFormed(iReturned)

(***************************************************************************)
(* C16: with the check and the INSERT of two collector processes           *)
(* interleaved, no state holds two rows with the same title, and no call   *)
(* of insert_news ends in an exception: a duplicate is answered with False.*)
(***************************************************************************)
C16_TitleUniqueWhenInterleaved ==
    /\ \A r1, r2 \in table : r1.title = r2.title => r1 = r2
    /\ \A p \in DOMAIN cpc : cpc[p] # "raised"

(***************************************************************************)
(* C17: each insert and each summary update is stored on its own.  A step  *)
(* changes one row at most; the step in which a collector or an analyzer   *)
(* run fails leaves the table and the files as the earlier steps of the    *)
(* run made them, so the rows inserted and the summaries written before    *)
(* the failure stay; and an analyzer writes the weekly file only in the    *)
(* step in which it returns, so a failed run has not written it.           *)
(***************************************************************************)
LastOf(tr) == IF tr = <<>> THEN <<"none", "none">> ELSE tr[Len(tr)]

Fails(stage) == trace' # trace /\ LastOf(trace') = <<stage, "raise">>

Returns(stage) ==
    /\ \E k \in 1..Len(trace') : trace'[k] = <<stage, "end">>
    /\ \A k \in 1..Len(trace) : trace[k] # <<stage, "end">>

C17_CommittedOnItsOwn ==
    [][ /\ table' # table => \E r \in table' : table' \ {r} \subseteq table
        /\ Fails("collector") \/ Fails("analyzer") => table' = table /\ files' = files
        /\ pc = "analyzer" /\ files' # files => Returns("analyzer")
      ]_vars

\* A collector run failed at its second source with a row of its first source
\* stored, or an analyzer run failed at its second row with the summary of its
\* first row stored.
C17_WitnessCollector ==
    /\ runs = 1 /\ LastOf(trace) = <<"collector", "raise">>
    /\ table # {}

C17_Witness ==
    /\ LastOf(trace) = <<"analyzer", "raise">>
    /\ Len(calls) = 2
    /\ \E r \in table : LlmCall(r.url) = calls[1] /\ r.summary = "s1"

(***************************************************************************)
(* C18: nothing is retried.  Within one run of a stage no request, the     *)
(* listing of a source, the page of a link of a listing, the request to    *)
(* the language model for a row or for the post, is made a second time;    *)
(* and within one invocation of the CLI no stage starts twice and a stage  *)
(* that raised is the last thing that happened.                            *)
(***************************************************************************)
NoRepeat(seq) == \A i, j \in 1..Len(seq) : seq[i] = seq[j] => i = j

C18_NoRetry ==
    /\ NoRepeat(calls)
    /\ NoRepeat(trace)
    /\ \A k \in 1..Len(trace) : trace[k][2] = "raise" => k = Len(trace) /\ pc = "idle"

\* A collector has fetched two sources, pages of both, and failed at nothing; or
\* a run stopped at a failed stage with later stages named.
C18_Witness ==
    /\ LastOf(trace) = <<"analyzer", "raise">>
    /\ InList("blogger", run_list)
    /\ Len(calls) = 2

(***************************************************************************)
(* C19: for every source and every max_items_per_source from 0 on, the     *)
(* strategy of the source returns at most that many items and its listing  *)
(* at most that many URLs, and the collector stores at most that many rows *)
(* of the source.                                                          *)
(***************************************************************************)
C19_AtMostLimit ==
    /\ pcF \in {"storing", "done", "listed"} /\ fResult.status = "ok"
          => Len(fResult.items) <= fSource.max_items_per_source
    /\ Collected => Cardinality(table) <= fSource.max_items_per_source

\* The limit cut the result short: without it the strategy would have returned
\* more items than it did, and what it returned is stored.
C19_Witness ==
    /\ pcF = "done" /\ fResult.status = "ok"
    /\ Len(fResult.items) = fSource.max_items_per_source
    /\ Cardinality(table) = fSource.max_items_per_source
    /\ fSource.max_items_per_source > 0
    /\ Len(FetchByType(fSource, MaxEntries, fSource.lookback_days, now_utc).items)
          > fSource.max_items_per_source

(***************************************************************************)
(* C20: fetch_rss returns no entry whose parsed date is earlier than now   *)
(* minus lookback_days; an entry without a date, or with dates that do not *)
(* parse, is kept; and the entries skipped, for their date, for a missing  *)
(* link or title, or for being the source itself, do not count towards the *)
(* limit: the result is the first max_items_per_source of the entries that *)
(* are not skipped, in the order of the feed.                              *)
(***************************************************************************)
\* The date of an entry: whether one of its date fields parses, and the first.
HasDate(entry) == \E k \in 1..Len(entry.dates) : entry.dates[k].kind = "ok"

DateOf(entry) ==
    entry.dates[CHOOSE k \in 1..Len(entry.dates) :
                    /\ entry.dates[k].kind = "ok"
                    /\ \A j \in 1..(k - 1) : entry.dates[j].kind # "ok"].dt

Eligible(entry, cutoff, source) ==
    /\ HasDate(entry) => ~DtLT(DateOf(entry), cutoff)
    /\ entry.link # NoUrl
    /\ \E k \in 1..Len(entry.title) : entry.title[k] # " "
    /\ normalize_url(entry.link) # normalize_url(source)

C20_RssLookback ==
    Collected /\ fSource.type = "rss" /\ fSource.listing = "ok" =>
        LET entries == fSource.entries
            cutoff  == AddDays(now_utc, 0 - fSource.lookback_days)
            kept    == SelectSeq([i \in 1..Len(entries) |-> i],
                                 LAMBDA i : Eligible(entries[i], cutoff, fSource.url))
            items   == fResult.items
        IN  /\ fResult.status = "ok"
            /\ Len(items) = IF Len(kept) < fSource.max_items_per_source
                            THEN Len(kept) ELSE fSource.max_items_per_source
            /\ \A k \in 1..Len(items) :
                  /\ items[k].url = entries[kept[k]].link
                  /\ items[k].published_date =
                        IF HasDate(entries[kept[k]])
                        THEN to_iso(DateOf(entries[kept[k]])) ELSE NoDate
            /\ \A i \in 1..Len(entries) :
                  HasDate(entries[i]) /\ DtLT(DateOf(entries[i]), cutoff)
                     => \A k \in 1..Len(items) :
                           items[k].published_date # to_iso(DateOf(entries[i]))

\* A feed of three entries with a limit of two: the first is older than the
\* cutoff, the others are returned, one of them without a date.
C20_Witness ==
    /\ pcF = "done" /\ fSource.type = "rss" /\ fSource.listing = "ok"
    /\ Len(fSource.entries) = 3 /\ fSource.max_items_per_source = 2
    /\ HasDate(fSource.entries[1])
    /\ DtLT(DateOf(fSource.entries[1]), AddDays(now_utc, 0 - fSource.lookback_days))
    /\ Len(fResult.items) = 2
    /\ \E k \in 1..2 : fResult.items[k].published_date = NoDate

(***************************************************************************)
(* C21: no strategy returns, and the collector stores, no item whose URL   *)
(* normalizes to what the URL of the source normalizes to; _normalize_url  *)
(* applied twice gives what it gives applied once, and _is_same_url(u,     *)
(* _normalize_url(u)) holds, for every URL u of the source and its entries.*)
(***************************************************************************)
NotTheSource(url) == normalize_url(url) # normalize_url(fSource.url)

NoSelfLink ==
    /\ Collected /\ fResult.status = "ok"
          => \A k \in 1..Len(fResult.items) : NotTheSource(fResult.items[k].url)
    /\ pcF = "listed" /\ fResult.status = "ok"
          => \A k \in 1..Len(fResult.items) : NotTheSource(fResult.items[k])
    /\ Collected => \A r \in table : NotTheSource(r.url)

UrlsOf(source) == {source.url} \cup { source.entries[i].link : i \in 1..Len(source.entries) }

Idempotent(u) == normalize_url(normalize_url(u)) = normalize_url(u)

EndsInSlashes(path) ==
    Len(path) > 2 /\ path[Len(path)] = "/" /\ path[Len(path) - 1] = "/"

Indices(seq) == [i \in 1..Len(seq) |-> i]

Linked(entry) == entry.link # NoUrl /\ normalize_url(entry.link) # normalize_url(fSource.url)

Readable(page) ==
    /\ page.ok
    /\ \E k \in 1..Len(page.title) : page.title[k] # " "
    /\ page.content # ""

FirstOf(seq, n) == IF Len(seq) < n THEN seq ELSE SubSeq(seq, 1, n)

C22_ArticleFailureSkips ==
    Collected =>
        LET entries == fSource.entries
            limit   == fSource.max_items_per_source
            items   == fResult.items
            cutoff  == AddDays(now_utc, 0 - fSource.lookback_days)
            linked  == SelectSeq(Indices(entries), LAMBDA i : Linked(entries[i]))
            read    == SelectSeq(linked, LAMBDA i : Readable(entries[i].page))
            tried   == SelectSeq(FirstOf(linked, limit), LAMBDA i : Readable(entries[i].page))
            kept    == SelectSeq(Indices(entries),
                                 LAMBDA i : Eligible(entries[i], cutoff, fSource.url))
        IN  /\ fResult.status # "ok"
                  => \/ fSource.type \notin StrategyTypes
                     \/ ~fSource.howto
                     \/ fSource.listing # "ok" /\ fSource.type # "rss"
            /\ fResult.status = "ok" /\ fSource.type = "html"
                  => /\ Len(items) = Len(FirstOf(read, limit))
                     /\ \A k \in 1..Len(items) : items[k].url = entries[read[k]].link
            /\ fResult.status = "ok" /\ fSource.type = "js"
                  => /\ Len(items) = Len(tried)
                     /\ \A k \in 1..Len(items) : items[k].url = entries[tried[k]].link
            /\ fResult.status = "ok" /\ fSource.type = "rss" /\ fSource.listing = "ok"
                  => /\ Len(items) = Len(FirstOf(kept, limit))
                     /\ \A k \in 1..Len(items) :
                           LET entry == entries[kept[k]]
                           IN  items[k].content =
                                  IF entry.page.ok /\ entry.page.content # ""
                                  THEN entry.page.content ELSE entry.content

\* A feed whose first entry has a page that cannot be fetched and no text of its
\* own: the entry is returned with the empty text, and the entry after it too.
C22_Witness ==
    /\ pcF = "done" /\ fSource.type = "rss" /\ fResult.status = "ok"
    /\ Len(fSource.entries) = 2
    /\ ~fSource.entries[1].page.ok
    /\ Len(fResult.items) = 2
    /\ fResult.items[1].content = ""

\* A listing page whose first link leads to a page that cannot be fetched: the
\* link is left out and the link after it is returned.
C22_WitnessHtml ==
    /\ pcF = "done" /\ fSource.type = "html" /\ fResult.status = "ok"
    /\ Len(fSource.entries) = 2
    /\ Linked(fSource.entries[1]) /\ ~fSource.entries[1].page.ok
    /\ Len(fResult.items) = 1

(***************************************************************************)
(* C23: when an analyzer run without --skip-summarize returns, every row   *)
(* collected in the ISO week of the run (the week of the time the run read *)
(* when it began) has a summary that is not NULL; the run changes no row   *)
(* collected in another week; and no step at all gives a summary to a row  *)
(* outside an analyzer run of the week the row was collected in.           *)
(***************************************************************************)
\* The ISO year and week a row was collected in.
WeekOfRow(r) ==
    iso_year_week(Instants[CHOOSE k \in 0..MaxTick : to_iso(Instants[k]) = r.collected_date])

C23_WeekSummarized ==
    [][ /\ Returns("analyzer") /\ ~args.skip_summarize
            => \A r \in table' : WeekOfRow(r) = anWeek => r.summary # NULL
        /\ \A r \in table :
              r \notin table'
                 => /\ pc = "analyzer" /\ spc = "loop" /\ ~args.skip_summarize
                    /\ WeekOfRow(r) = anWeek
                    /\ \E r2 \in table' : r2 = [r EXCEPT !.summary = r2.summary]
      ]_vars

\* An analyzer run has returned: a row of its week has the summary it wrote and a
\* row of an earlier week has none.
C23_Witness ==
    /\ pc = "idle" /\ LastOf(trace) = <<"analyzer", "end">> /\ ~args.skip_summarize
    /\ calls # <<>>
    /\ \E r \in table : WeekOfRow(r) = iso_year_week(now_utc) /\ r.summary = "s1"
    /\ \E r \in table : WeekOfRow(r) # iso_year_week(now_utc) /\ r.summary = NULL

====
